---- MODULE Spec2Model ----
(***************************************************************************)
(* The builder / read accessor contract of the Rocketlets type             *)
(* definitions.  The repository declares interfaces only; what each        *)
(* method does is stated by its signature and its documentation comment,   *)
(* and that is what every action below is translated from.                 *)
(*                                                                         *)
(* Objects are kept in a heap (objs) so that "the same object" and "a copy *)
(* of the object" are different things, as they are in TypeScript.         *)
(***************************************************************************)
EXTENDS Integers, Sequences, FiniteSets, TLC

\* ---------------------------------------------------------------- bounds
MaxBuilders == 1        \* builders handed out in one run
MaxAttachments == 2     \* longest attachment sequence built
MaxMembers == 2         \* longest username sequence built

\* ---------------------------------------------------------------- values
None == "none"                       \* an absent (undefined) string or reference
Users == {"u1", "u2"}                \* IUser
Attachments == {"a1", "a2"}          \* IMessageAttachment (opaque)
Texts == {"hi"}
Emojis == {":smile:", ":cat:"}
AvatarUrls == {"http://img"}
Aliases == {"bot"}
Usernames == {"alice", "bob"}
RoomTypes == {"c", "p"}              \* RoomType
RoomNames == {"", "general", "bad name"}
MsgIds == {"m1", "m2", "m3"}               \* ids the store can hand out
RoomIds == {"r1", "r2", "r3"}
UnknownIds == {"msg-404"}            \* an id nothing is stored under

\* Sequences over S of length at most n.
RECURSIVE SeqsUpTo(_, _)
SeqsUpTo(S, n) ==
    IF n = 0 THEN {<<>>}
    ELSE LET shorter == SeqsUpTo(S, n - 1)
         IN  shorter \cup {Append(s, x) : s \in {t \in shorter : Len(t) = n - 1}, x \in S}

\* ---------------------------------------------------------------- state
VARIABLES
    messages,   \* the host's stored messages: a function id -> IMessage
    rooms,      \* the host's stored rooms: a function id -> IRoom
    objs,       \* heap of IMessage / IRoom objects owned by builders or callers
    builders,   \* the builders handed out so far
    held,       \* heap reference of the value getMessage()/getRoom() last returned, 0 if none
    promise,    \* the read accessor's outstanding Promise
    last,       \* the most recent call and how it ended
    commits     \* history: how many terminal calls each builder has completed

vars == <<messages, rooms, objs, builders, held, promise, last, commits>>

\* The avatar shown for a message: the sender's own, an emoji or an image url.
UserAvatar == [kind |-> "user", v |-> None]

EmptyMessage ==
    [id |-> None, room |-> None, sender |-> None, text |-> None, avatar |-> UserAvatar,
     alias |-> None, attachments |-> <<>>, updater |-> None]

EmptyRoom ==
    [id |-> None, name |-> None, type |-> None, creator |-> None, isDefault |-> FALSE,
     usernames |-> <<>>, updater |-> None]

SeedMessage ==
    [id |-> "m1", room |-> "r1", sender |-> "u1", text |-> "hi", avatar |-> UserAvatar,
     alias |-> None, attachments |-> <<"a1">>, updater |-> None]

SeedRoom ==
    [id |-> "r1", name |-> "general", type |-> "c", creator |-> "u1", isDefault |-> FALSE,
     usernames |-> <<"alice">>, updater |-> None]

NoPromise == [state |-> "none"]
NoCall == [op |-> "init", via |-> None, b |-> 0, arg |-> <<>>, err |-> None, ret |-> 0, val |-> None]

Init ==
    /\ messages = [i \in {"m1"} |-> SeedMessage]
    /\ rooms = [i \in {"r1"} |-> SeedRoom]
    /\ objs = <<>>
    /\ builders = <<>>
    /\ held = 0
    /\ promise = NoPromise
    /\ last = NoCall
    /\ commits = <<>>

\* ---------------------------------------------------------------- helpers
BuilderIds == DOMAIN builders
MessageBuilders == {b \in BuilderIds : builders[b].kind = "message"}
RoomBuilders == {b \in BuilderIds : builders[b].kind = "room"}
Content(b) == objs[builders[b].ref]

\* The record of a call: the method, the interface it belongs to, the builder
\* it was made on or handed (0 if none), its arguments, the error thrown (None
\* if none), the builder returned (0 if none) and any other value returned.
Call(op, via, b, arg, err, ret, val) ==
    [op |-> op, via |-> via, b |-> b, arg |-> arg, err |-> err, ret |-> ret, val |-> val]

\* A call on builder b that the builder accepts: its working copy becomes obj
\* and the builder itself is returned (fluent chaining).
Accept(op, via, b, arg, obj) ==
    /\ objs' = [objs EXCEPT ![builders[b].ref] = obj]
    /\ last' = Call(op, via, b, arg, None, b, None)
    /\ UNCHANGED <<messages, rooms, builders, held, promise, commits>>

\* A call that throws: nothing but the record of the call changes.
Reject(op, via, b, arg, err) ==
    /\ last' = Call(op, via, b, arg, err, 0, None)
    /\ UNCHANGED <<messages, rooms, objs, builders, held, promise, commits>>

\* A builder that a terminal method has consumed is no longer valid.
Usable(b) == builders[b].valid

\* A call on or with a builder that is no longer valid is thrown out at once.
UseAfterFinish(op, via, b, arg) == Reject(op, via, b, arg, "UseAfterFinish")

\* A builder method: thrown out on a consumed builder, else fails with err
\* when err is an error, else applies obj.
BuilderCall(op, via, b, arg, err, obj) ==
    IF ~Usable(b) THEN UseAfterFinish(op, via, b, arg)
    ELSE IF err # None THEN Reject(op, via, b, arg, err)
    ELSE Accept(op, via, b, arg, obj)

\* ---------------------------------------------------------------- accessors
\* A new builder over a working copy obj of its own.
NewBuilder(op, via, arg, kind, mode, obj) ==
    /\ Len(builders) < MaxBuilders
    /\ objs' = Append(objs, obj)
    /\ builders' = Append(builders,
                          [kind |-> kind, mode |-> mode, valid |-> TRUE, ref |-> Len(objs) + 1])
    /\ commits' = Append(commits, 0)
    /\ last' = Call(op, via, 0, arg, None, Len(builders) + 1, None)
    /\ UNCHANGED <<messages, rooms, held, promise>>

\* modifyMessage / modifyRoom with an id nothing is stored under.
NotFound(op, via, arg) == Reject(op, via, 0, arg, "NotFound")

\* buildMessage(msg?): a builder of a new message, built on top of msg if given.
BuildMessage(via, seed) ==
    NewBuilder("buildMessage", via, <<seed>>, "message", "new",
               IF seed = None THEN EmptyMessage ELSE [messages[seed] EXCEPT !.id = None])

\* buildRoom(room?): a builder of a new room, built on top of room if given.
BuildRoom(via, seed) ==
    NewBuilder("buildRoom", via, <<seed>>, "room", "new",
               IF seed = None THEN EmptyRoom ELSE [rooms[seed] EXCEPT !.id = None])

\* Faulty variant: modifyMessage that leaves the updater as stored.
ModifyMessageNoUpdater(via, msgId, updater) ==
    IF msgId \in DOMAIN messages
    THEN NewBuilder("modifyMessage", via, <<msgId, updater>>, "message", "modify",
                    messages[msgId])
    ELSE NotFound("modifyMessage", via, <<msgId, updater>>)

\* modifyMessage(msgId, updater): a builder over the existing message msgId.
ModifyMessage(via, msgId, updater) ==
    IF msgId \in DOMAIN messages
    THEN NewBuilder("modifyMessage", via, <<msgId, updater>>, "message", "modify",
                    [messages[msgId] EXCEPT !.updater = updater])
    ELSE NotFound("modifyMessage", via, <<msgId, updater>>)

\* Faulty variant: modifyRoom that builds on nothing when the room is not stored.
ModifyRoomAnyway(via, roomId, updater) ==
    NewBuilder("modifyRoom", via, <<roomId, updater>>, "room", "modify",
               IF roomId \in DOMAIN rooms THEN [rooms[roomId] EXCEPT !.updater = updater]
               ELSE [EmptyRoom EXCEPT !.id = roomId, !.updater = updater])

\* modifyRoom(roomId, updater): a builder over the existing room roomId.
ModifyRoom(via, roomId, updater) ==
    IF roomId \in DOMAIN rooms
    THEN NewBuilder("modifyRoom", via, <<roomId, updater>>, "room", "modify",
                    [rooms[roomId] EXCEPT !.updater = updater])
    ELSE NotFound("modifyRoom", via, <<roomId, updater>>)

\* The id the host gives the next new entity.
FreshId(ids, used) == CHOOSE i \in ids \ used : TRUE

\* Faulty variant: a terminal method that leaves the builder valid.
ConsumeNot(b) == builders

\* A terminal method has taken builder b: it is no longer valid.
Consume(b) == [builders EXCEPT ![b].valid = FALSE]

\* The store after the entity built by b is saved: under a fresh id for a new
\* entity, in place of the stored one for a modified entity.
Saved(store, ids, b) ==
    IF builders[b].mode = "new"
    THEN LET id == FreshId(ids, DOMAIN store)
         IN  [i \in DOMAIN store \cup {id} |->
                 IF i = id THEN [Content(b) EXCEPT !.id = id] ELSE store[i]]
    ELSE [store EXCEPT ![Content(b).id] = Content(b)]

SavedId(store, ids, b) ==
    IF builders[b].mode = "new" THEN FreshId(ids, DOMAIN store) ELSE Content(b).id

\* finishMessage / sendMessage: finishes and sends the message of builder b.
FinishMessage(op, via, b) ==
    IF ~Usable(b) THEN UseAfterFinish(op, via, b, <<>>)
    ELSE IF builders[b].mode = "modify" /\ Content(b).updater = None
         THEN Reject(op, via, b, <<>>, "MissingUpdater")
    ELSE /\ builders[b].mode = "new" => MsgIds \ DOMAIN messages # {}
         /\ messages' = Saved(messages, MsgIds, b)
         /\ builders' = Consume(b)
         /\ commits' = [commits EXCEPT ![b] = @ + 1]
         /\ last' = Call(op, via, b, <<>>, None, 0, SavedId(messages, MsgIds, b))
         /\ UNCHANGED <<rooms, objs, held, promise>>

\* finishRoom / createRoom: finishes and creates the room of builder b.
FinishRoom(op, via, b) ==
    IF ~Usable(b) THEN UseAfterFinish(op, via, b, <<>>)
    ELSE IF builders[b].mode = "modify" /\ Content(b).updater = None
         THEN Reject(op, via, b, <<>>, "MissingUpdater")
    ELSE /\ builders[b].mode = "new" => RoomIds \ DOMAIN rooms # {}
         /\ rooms' = Saved(rooms, RoomIds, b)
         /\ builders' = Consume(b)
         /\ commits' = [commits EXCEPT ![b] = @ + 1]
         /\ last' = Call(op, via, b, <<>>, None, 0, SavedId(rooms, RoomIds, b))
         /\ UNCHANGED <<messages, objs, held, promise>>

\* ---------------------------------------------------------------- IMessageBuilder
MessageBuilderMethods ==
    {"setRoom", "setSender", "setText", "setEmojiAvatar", "setAvatarUrl", "setUsernameAlias",
     "addAttachment", "setAttachments", "replaceAttachment", "removeAttachment",
     "setUpdater", "getMessage"}

\* ---------------------------------------------------------------- IRoomBuilder
RoomBuilderMethods ==
    {"setCreator", "setName", "setType", "setDefault", "addUsername", "setUsers", "getRoom"}

Methods(kind) == IF kind = "message" THEN MessageBuilderMethods ELSE RoomBuilderMethods

\* The builders whose interface declares method op.
Offering(op) == {b \in BuilderIds : op \in Methods(builders[b].kind)}

\* Faulty variant: a bounds check that lets negative positions through.
HasIndexNoLower(seq, position) == position < Len(seq)

\* Faulty variant: a replace that inserts before the position (splice with deleteCount 0).
ReplaceAtInsert(seq, position, x) ==
    [i \in 1 .. Len(seq) + 1 |->
        IF i <= position THEN seq[i] ELSE IF i = position + 1 THEN x ELSE seq[i - 1]]

\* Array positions are counted from 0; sequences here from 1.
HasIndex(seq, position) == 0 <= position /\ position < Len(seq)
ReplaceAt(seq, position, x) ==
    [i \in 1 .. Len(seq) |-> IF i = position + 1 THEN x ELSE seq[i]]
RemoveAt(seq, position) ==
    [i \in 1 .. Len(seq) - 1 |-> IF i <= position THEN seq[i] ELSE seq[i + 1]]

Positions == -1 .. MaxAttachments

setRoom(b, room) ==
    BuilderCall("setRoom", "IMessageBuilder", b, <<room>>, None,
                [Content(b) EXCEPT !.room = room])

setSender(b, sender) ==
    BuilderCall("setSender", "IMessageBuilder", b, <<sender>>, None,
                [Content(b) EXCEPT !.sender = sender])

setText(b, text) ==
    BuilderCall("setText", "IMessageBuilder", b, <<text>>, None,
                [Content(b) EXCEPT !.text = text])

\* Faulty variant: an emoji that does not displace an avatar url already set.
setEmojiAvatarUnlessUrl(b, emoji) ==
    BuilderCall("setEmojiAvatar", "IMessageBuilder", b, <<emoji>>, None,
                IF Content(b).avatar.kind = "url" THEN Content(b)
                ELSE [Content(b) EXCEPT !.avatar = [kind |-> "emoji", v |-> emoji]])

setEmojiAvatar(b, emoji) ==
    BuilderCall("setEmojiAvatar", "IMessageBuilder", b, <<emoji>>, None,
                [Content(b) EXCEPT !.avatar = [kind |-> "emoji", v |-> emoji]])

setAvatarUrl(b, avatarUrl) ==
    BuilderCall("setAvatarUrl", "IMessageBuilder", b, <<avatarUrl>>, None,
                [Content(b) EXCEPT !.avatar = [kind |-> "url", v |-> avatarUrl]])

setUsernameAlias(b, alias) ==
    BuilderCall("setUsernameAlias", "IMessageBuilder", b, <<alias>>, None,
                [Content(b) EXCEPT !.alias = alias])

addAttachment(b, attachment) ==
    /\ Usable(b) => Len(Content(b).attachments) < MaxAttachments
    /\ BuilderCall("addAttachment", "IMessageBuilder", b, <<attachment>>, None,
                   [Content(b) EXCEPT !.attachments = Append(@, attachment)])

\* Faulty variant: setAttachments that adds to the current attachments.
setAttachmentsAppend(b, attachments) ==
    BuilderCall("setAttachments", "IMessageBuilder", b, <<attachments>>, None,
                [Content(b) EXCEPT !.attachments = @ \o attachments])

setAttachments(b, attachments) ==
    BuilderCall("setAttachments", "IMessageBuilder", b, <<attachments>>, None,
                [Content(b) EXCEPT !.attachments = attachments])

replaceAttachment(b, position, attachment) ==
    BuilderCall("replaceAttachment", "IMessageBuilder", b, <<position, attachment>>,
                IF HasIndex(Content(b).attachments, position) THEN None ELSE "IndexOutOfRange",
                [Content(b) EXCEPT !.attachments = ReplaceAt(@, position, attachment)])

removeAttachment(b, position) ==
    BuilderCall("removeAttachment", "IMessageBuilder", b, <<position>>,
                IF HasIndex(Content(b).attachments, position) THEN None ELSE "IndexOutOfRange",
                [Content(b) EXCEPT !.attachments = RemoveAt(@, position)])

setUpdater(b, user) ==
    BuilderCall("setUpdater", "IMessageBuilder", b, <<user>>, None,
                [Content(b) EXCEPT !.updater = user])

\* Faulty variant: getMessage() / getRoom() handing out the working object itself.
SnapshotAlias(ref) == [objs |-> objs, held |-> ref]

\* What a caller gets from getMessage() / getRoom(): a copy of the working
\* object at ref, in a heap cell of its own (the cell of the value returned
\* before, which the caller has let go, is used again).
Snapshot(ref) ==
    IF held = 0
    THEN [objs |-> Append(objs, objs[ref]), held |-> Len(objs) + 1]
    ELSE [objs |-> [objs EXCEPT ![held] = objs[ref]], held |-> held]

Get(op, via, b) ==
    IF ~Usable(b) THEN UseAfterFinish(op, via, b, <<>>)
    ELSE /\ objs' = Snapshot(builders[b].ref).objs
         /\ held' = Snapshot(builders[b].ref).held
         /\ last' = Call(op, via, b, <<>>, None, 0, None)
         /\ UNCHANGED <<messages, rooms, builders, promise, commits>>

getMessage(b) == Get("getMessage", "IMessageBuilder", b)

\* ---------------------------------------------------------------- IRoomBuilder
\* The host's rules for room names.
ValidRoomNames == {"general", "valid-name"}
ValidRoomName(name) == name \in ValidRoomNames

setCreator(b, creator) ==
    BuilderCall("setCreator", "IRoomBuilder", b, <<creator>>, None,
                [Content(b) EXCEPT !.creator = creator])

\* Faulty variant: setName that stores the name before it checks it.
setNameThenCheck(b, name) ==
    IF ~Usable(b) THEN UseAfterFinish("setName", "IRoomBuilder", b, <<name>>)
    ELSE IF ValidRoomName(name)
         THEN Accept("setName", "IRoomBuilder", b, <<name>>, [Content(b) EXCEPT !.name = name])
    ELSE /\ objs' = [objs EXCEPT ![builders[b].ref].name = name]
         /\ last' = Call("setName", "IRoomBuilder", b, <<name>>, "InvalidName", 0, None)
         /\ UNCHANGED <<messages, rooms, builders, held, promise, commits>>

setName(b, name) ==
    BuilderCall("setName", "IRoomBuilder", b, <<name>>,
                IF ValidRoomName(name) THEN None ELSE "InvalidName",
                [Content(b) EXCEPT !.name = name])

setType(b, type) ==
    BuilderCall("setType", "IRoomBuilder", b, <<type>>, None,
                [Content(b) EXCEPT !.type = type])

setDefault(b, isDefault) ==
    BuilderCall("setDefault", "IRoomBuilder", b, <<isDefault>>, None,
                [Content(b) EXCEPT !.isDefault = isDefault])

addUsername(b, username) ==
    /\ Usable(b) => Len(Content(b).usernames) < MaxMembers
    /\ BuilderCall("addUsername", "IRoomBuilder", b, <<username>>, None,
                   [Content(b) EXCEPT !.usernames = Append(@, username)])

setUsers(b, users) ==
    BuilderCall("setUsers", "IRoomBuilder", b, <<users>>, None,
                [Content(b) EXCEPT !.usernames = users])

getRoom(b) == Get("getRoom", "IRoomBuilder", b)

\* ---------------------------------------------------------------- the caller
IsMessage(obj) == "attachments" \in DOMAIN obj

\* The caller modifies the value getMessage() / getRoom() returned to it:
\* it overwrites the attachment (member) array of that object with s.
ModifyReturned(s) ==
    /\ held # 0
    /\ objs' = IF IsMessage(objs[held]) THEN [objs EXCEPT ![held].attachments = s]
               ELSE [objs EXCEPT ![held].usernames = s]
    /\ last' = Call("modifyReturned", None, 0, <<s>>, None, 0, None)
    /\ UNCHANGED <<messages, rooms, builders, held, promise, commits>>

\* The caller lets go of the value returned to it.
Release ==
    /\ held # 0 /\ held = Len(objs)
    /\ objs' = SubSeq(objs, 1, Len(objs) - 1)
    /\ held' = 0
    /\ last' = Call("release", None, 0, <<>>, None, 0, None)
    /\ UNCHANGED <<messages, rooms, builders, promise, commits>>

\* ---------------------------------------------------------------- IMessageRead
Undefined == [tag |-> "undefined"]
Value(v) == [tag |-> "value", v |-> v]

\* Faulty variant: the sender / room of a message read without checking the message is there.
LookupUnchecked(op, id) ==
    IF op = "getById"
    THEN IF id \in DOMAIN messages THEN Value(messages[id]) ELSE Undefined
    ELSE IF id \notin DOMAIN messages THEN [tag |-> "error", v |-> "TypeError"]
    ELSE IF op = "getSenderUser"
         THEN IF messages[id].sender = None THEN Undefined ELSE Value(messages[id].sender)
    ELSE IF messages[id].room \in DOMAIN rooms THEN Value(rooms[messages[id].room])
    ELSE Undefined

\* What a lookup of message id resolves to.
Lookup(op, id) ==
    IF id \notin DOMAIN messages THEN Undefined
    ELSE IF op = "getById" THEN Value(messages[id])
    ELSE IF op = "getSenderUser"
         THEN IF messages[id].sender = None THEN Undefined ELSE Value(messages[id].sender)
    ELSE IF messages[id].room \in DOMAIN rooms THEN Value(rooms[messages[id].room])
    ELSE Undefined

\* A read method returns a Promise at once; the host settles it later.
Read(op, id) ==
    /\ promise.state # "pending"
    /\ promise' = [state |-> "pending", op |-> op, id |-> id]
    /\ last' = Call(op, "IMessageRead", 0, <<id>>, None, 0, None)
    /\ UNCHANGED <<messages, rooms, objs, builders, held, commits>>

getById(id) == Read("getById", id)
getSenderUser(messageId) == Read("getSenderUser", messageId)
getRoomOf(messageId) == Read("getRoom", messageId)

\* The host settles the outstanding Promise.
Settle ==
    /\ promise.state = "pending"
    /\ promise' = [state |-> "fulfilled", op |-> promise.op, id |-> promise.id,
                   value |-> Lookup(promise.op, promise.id)]
    /\ last' = Call("settle", "IMessageRead", 0, <<promise.id>>, None, 0, None)
    /\ UNCHANGED <<messages, rooms, objs, builders, held, commits>>

\* ---------------------------------------------------------------- specifications
\* The builders a terminal method has already completed on.
Committed == {b \in BuilderIds : commits[b] > 0}

\* Builders from creation to commit, and every method called on a builder that
\* has been handed to a terminal method.
NextLifecycle ==
    \/ \E seed \in {None, "m1"} : BuildMessage("IBuilder", seed)
    \/ BuildMessage("INewBuilder", None)
    \/ ModifyMessage("IBuilder", "m1", "u1")
    \/ BuildRoom("IBuilder", None)
    \/ BuildRoom("INewBuilder", None)
    \/ ModifyRoom("IBuilder", "r1", "u1")
    \/ \E b \in Offering("setText") : setText(b, "hi")
    \/ \E b \in Offering("addAttachment") : addAttachment(b, "a1")
    \/ \E b \in Offering("setDefault") : setDefault(b, TRUE)
    \/ \E b \in MessageBuilders : FinishMessage("finishMessage", "IBuilder", b)
    \/ \E b \in MessageBuilders : FinishMessage("sendMessage", "INewBuilder", b)
    \/ \E b \in RoomBuilders : FinishRoom("finishRoom", "IBuilder", b)
    \/ \E b \in RoomBuilders : FinishRoom("createRoom", "INewBuilder", b)
    \/ \E b \in Committed \cap Offering("setRoom") : setRoom(b, "r1")
    \/ \E b \in Committed \cap Offering("setSender") : setSender(b, "u2")
    \/ \E b \in Committed \cap Offering("setText") : setText(b, "hi")
    \/ \E b \in Committed \cap Offering("setEmojiAvatar") : setEmojiAvatar(b, ":cat:")
    \/ \E b \in Committed \cap Offering("setAvatarUrl"), a \in AvatarUrls : setAvatarUrl(b, a)
    \/ \E b \in Committed \cap Offering("setUsernameAlias"), a \in Aliases :
          setUsernameAlias(b, a)
    \/ \E b \in Committed \cap Offering("addAttachment") : addAttachment(b, "a2")
    \/ \E b \in Committed \cap Offering("setAttachments"), s \in {<<>>, <<"a2">>} :
          setAttachments(b, s)
    \/ \E b \in Committed \cap Offering("replaceAttachment"), p \in {0, 1} :
          replaceAttachment(b, p, "a2")
    \/ \E b \in Committed \cap Offering("removeAttachment"), p \in {0, 1} :
          removeAttachment(b, p)
    \/ \E b \in Committed \cap Offering("setUpdater") : setUpdater(b, "u2")
    \/ \E b \in Committed \cap Offering("getMessage") : getMessage(b)
    \/ \E b \in Committed \cap Offering("setCreator") : setCreator(b, "u2")
    \/ \E b \in Committed \cap Offering("setName"), n \in {"", "valid-name"} : setName(b, n)
    \/ \E b \in Committed \cap Offering("setType") : setType(b, "p")
    \/ \E b \in Committed \cap Offering("setDefault"), d \in BOOLEAN : setDefault(b, d)
    \/ \E b \in Committed \cap Offering("addUsername") : addUsername(b, "bob")
    \/ \E b \in Committed \cap Offering("setUsers"), s \in {<<>>, <<"bob">>} : setUsers(b, s)
    \/ \E b \in Committed \cap Offering("getRoom") : getRoom(b)

SpecLifecycle == Init /\ [][NextLifecycle]_vars

\* The attachment sequence of a message builder.  The caller looks at what
\* getMessage() returns and lets go of it before its next call.
NextAttachments ==
    \/ held # 0 /\ Release
    \/ held = 0 /\ \E seed \in {None, "m1"} : BuildMessage("IBuilder", seed)
    \/ held = 0 /\ \E b \in Offering("addAttachment"), a \in Attachments : addAttachment(b, a)
    \/ held = 0 /\ \E b \in Offering("setAttachments"),
                         s \in SeqsUpTo(Attachments, MaxAttachments) : setAttachments(b, s)
    \/ held = 0 /\ \E b \in Offering("replaceAttachment"), p \in Positions, a \in Attachments :
                      replaceAttachment(b, p, a)
    \/ held = 0 /\ \E b \in Offering("removeAttachment"), p \in Positions : removeAttachment(b, p)
    \/ held = 0 /\ \E b \in Offering("getMessage") : getMessage(b)

SpecAttachments == Init /\ [][NextAttachments]_vars

\* Values returned by getMessage() / getRoom() in the hands of the caller.
NextSnapshot ==
    \/ BuildMessage("INewBuilder", None)
    \/ BuildRoom("INewBuilder", None)
    \/ \E b \in Offering("addAttachment") : addAttachment(b, "a1")
    \/ \E b \in Offering("addUsername") : addUsername(b, "alice")
    \/ \E b \in Offering("getMessage") : getMessage(b)
    \/ \E b \in Offering("getRoom") : getRoom(b)
    \/ \E s \in {<<>>, <<"a2">>} : ModifyReturned(s)
    \/ \E b \in MessageBuilders : FinishMessage("sendMessage", "INewBuilder", b)
    \/ \E b \in RoomBuilders : FinishRoom("createRoom", "INewBuilder", b)

SpecSnapshot == Init /\ [][NextSnapshot]_vars

\* Modifying stored messages and rooms.
NextModify ==
    \/ \E id \in MsgIds \cup UnknownIds, u \in Users : ModifyMessage("IBuilder", id, u)
    \/ \E id \in RoomIds \cup UnknownIds, u \in Users : ModifyRoom("IBuilder", id, u)
    \/ \E id \in MsgIds \cup UnknownIds, u \in Users : ModifyMessage("IModifyBuilder", id, u)
    \/ \E id \in RoomIds \cup UnknownIds, u \in Users : ModifyRoom("IModifyBuilder", id, u)
    \/ BuildMessage("IBuilder", None)
    \/ \E b \in Offering("setUpdater"), u \in Users : setUpdater(b, u)
    \/ \E b \in Offering("setText") : setText(b, "hi")
    \/ \E b \in Offering("setDefault") : setDefault(b, TRUE)
    \/ \E b \in MessageBuilders : FinishMessage("finishMessage", "IBuilder", b)
    \/ \E b \in RoomBuilders : FinishRoom("finishRoom", "IBuilder", b)

SpecModify == Init /\ [][NextModify]_vars

\* Naming rooms.
NextRoomName ==
    \/ \E seed \in {None, "r1"} : BuildRoom("IBuilder", seed)
    \/ \E u \in Users : ModifyRoom("IBuilder", "r1", u)
    \/ \E b \in Offering("setName"), n \in RoomNames \cup ValidRoomNames : setName(b, n)
    \/ \E b \in Offering("getRoom") : getRoom(b)
    \/ \E b \in RoomBuilders : FinishRoom("finishRoom", "IBuilder", b)

SpecRoomName == Init /\ [][NextRoomName]_vars

\* Reading messages while messages are being sent.
NextRead ==
    \/ \E id \in MsgIds \cup UnknownIds : getById(id)
    \/ \E id \in MsgIds \cup UnknownIds : getSenderUser(id)
    \/ \E id \in MsgIds \cup UnknownIds : getRoomOf(id)
    \/ Settle
    \/ BuildMessage("INewBuilder", None)
    \/ \E b \in Offering("setSender"), u \in Users : setSender(b, u)
    \/ \E b \in Offering("setRoom"), r \in DOMAIN rooms : setRoom(b, r)
    \/ \E b \in MessageBuilders : FinishMessage("sendMessage", "INewBuilder", b)

SpecRead == Init /\ [][NextRead]_vars

\* The avatar of a message.
NextAvatar ==
    \/ \E seed \in {None, "m1"} : BuildMessage("IBuilder", seed)
    \/ \E b \in Offering("setEmojiAvatar"), e \in Emojis : setEmojiAvatar(b, e)
    \/ \E b \in Offering("setAvatarUrl"), a \in AvatarUrls : setAvatarUrl(b, a)
    \/ \E b \in Offering("setText") : setText(b, "hi")
    \/ \E b \in Offering("getMessage") : getMessage(b)
    \/ \E b \in MessageBuilders : FinishMessage("finishMessage", "IBuilder", b)

SpecAvatar == Init /\ [][NextAvatar]_vars

\* ---------------------------------------------------------------- properties
\* The working copy of builder b after the step.
ContentAfter(b) == objs'[builders'[b].ref]

TerminalMethods == {"finishMessage", "sendMessage", "finishRoom", "createRoom"}

\* C1: a builder is committed at most once, and every call made on a builder
\* after a terminal method has completed on it is rejected with
\* UseAfterFinish and changes neither a builder nor a stored entity.
C1_SingleUse ==
    [][/\ \A b \in DOMAIN commits' : commits'[b] <= 1
       /\ \A b \in Committed :
             last'.b = b =>
                 /\ last'.err = "UseAfterFinish"
                 /\ objs' = objs /\ builders' = builders
                 /\ messages' = messages /\ rooms' = rooms]_vars

\* A second terminal call on a committed builder has been rejected.
C1_Witness ==
    /\ last.op \in TerminalMethods
    /\ last.err = "UseAfterFinish"
    /\ commits[last.b] = 1

\* C2: replaceAttachment / removeAttachment at a position outside [0, n) of a
\* valid builder fails with IndexOutOfRange and leaves the attachments as they were.
C2_OutOfRange ==
    [][\A b \in BuilderIds :
          (/\ last'.op \in {"replaceAttachment", "removeAttachment"}
           /\ last'.b = b
           /\ Usable(b)
           /\ ~(0 <= last'.arg[1] /\ last'.arg[1] < Len(Content(b).attachments)))
          => /\ last'.err = "IndexOutOfRange"
             /\ ContentAfter(b).attachments = Content(b).attachments]_vars

\* A replace at position n of a non-empty sequence of length n has failed.
C2_Witness ==
    /\ last.op = "replaceAttachment"
    /\ last.err = "IndexOutOfRange"
    /\ Len(Content(last.b).attachments) > 0
    /\ last.arg[1] = Len(Content(last.b).attachments)

\* C3: replaceAttachment(i, a) at a valid position i succeeds, puts a at
\* position i, keeps every other position and the length; getMessage()
\* returns the attachments of the builder.
C3_Replace ==
    [][\A b \in BuilderIds :
          /\ (/\ last'.op = "replaceAttachment"
              /\ last'.b = b
              /\ Usable(b)
              /\ 0 <= last'.arg[1] /\ last'.arg[1] < Len(Content(b).attachments))
             => /\ last'.err = None
                /\ Len(ContentAfter(b).attachments) = Len(Content(b).attachments)
                /\ \A j \in 1 .. Len(Content(b).attachments) :
                      ContentAfter(b).attachments[j] =
                          IF j = last'.arg[1] + 1 THEN last'.arg[2]
                          ELSE Content(b).attachments[j]
          /\ (last'.op = "getMessage" /\ last'.b = b /\ last'.err = None)
             => objs'[held'].attachments = Content(b).attachments]_vars

\* The second of two attachments has been replaced by a different one.
C3_Witness ==
    /\ last.op = "replaceAttachment"
    /\ last.err = None
    /\ last.arg[1] = 1
    /\ Len(Content(last.b).attachments) = 2
    /\ Content(last.b).attachments[1] # Content(last.b).attachments[2]

\* C4: after setAttachments(s) the attachments of the builder are exactly s,
\* and getMessage() returns the attachments of the builder.
C4_SetAttachments ==
    /\ (last.op = "setAttachments" /\ Usable(last.b))
       => last.err = None /\ Content(last.b).attachments = last.arg[1]
    /\ (last.op = "getMessage" /\ last.err = None)
       => objs[held].attachments = Content(last.b).attachments

\* getMessage() has returned the two attachments a setAttachments call put there.
C4_Witness ==
    /\ last.op = "getMessage"
    /\ last.err = None
    /\ objs[held].attachments = <<"a2", "a1">>

\* C5: getMessage() / getRoom() return a copy of the builder's working copy;
\* a builder's working copy changes only by calls on that builder, so not when
\* the caller modifies a returned value; a commit stores the working copy.
C5_Detached ==
    [][/\ \A b \in BuilderIds :
             /\ (last'.op \in {"getMessage", "getRoom"} /\ last'.b = b /\ last'.err = None)
                => objs'[held'] = Content(b)
             /\ last'.b # b => ContentAfter(b) = Content(b)
             /\ (last'.op \in {"finishMessage", "sendMessage"} /\ last'.b = b
                   /\ last'.err = None)
                => messages'[last'.val] = [Content(b) EXCEPT !.id = last'.val]
             /\ (last'.op \in {"finishRoom", "createRoom"} /\ last'.b = b
                   /\ last'.err = None)
                => rooms'[last'.val] = [Content(b) EXCEPT !.id = last'.val]
       /\ last'.op = "modifyReturned" => messages' = messages /\ rooms' = rooms]_vars

\* The caller has changed the attachments of a returned message, which now
\* differ from those of the message builder.
C5_Witness ==
    /\ last.op = "modifyReturned"
    /\ IsMessage(objs[held])
    /\ \E b \in MessageBuilders :
          /\ Usable(b)
          /\ Content(b).attachments = <<"a1">>
          /\ objs[held].attachments = <<"a2">>

\* C6: modifyMessage / modifyRoom with an id that is not stored fails with
\* NotFound, returns no builder and changes nothing; with a stored id it
\* returns a new modify-mode builder holding the stored entity, updater set.
C6_Modify ==
    [][last'.op \in {"modifyMessage", "modifyRoom"} =>
          LET store == IF last'.op = "modifyMessage" THEN messages ELSE rooms
              kind == IF last'.op = "modifyMessage" THEN "message" ELSE "room"
              id == last'.arg[1]
              ret == last'.ret
          IN  IF id \in DOMAIN store
              THEN /\ last'.err = None
                   /\ ret = Len(builders) + 1
                   /\ DOMAIN builders' = 1 .. ret
                   /\ builders'[ret].kind = kind
                   /\ builders'[ret].mode = "modify"
                   /\ builders'[ret].valid
                   /\ objs'[builders'[ret].ref] = [store[id] EXCEPT !.updater = last'.arg[2]]
                   /\ messages' = messages /\ rooms' = rooms
              ELSE /\ last'.err = "NotFound"
                   /\ ret = 0
                   /\ builders' = builders /\ objs' = objs
                   /\ messages' = messages /\ rooms' = rooms]_vars

\* modifyRoom has been called with an id no room is stored under.
C6_Witness ==
    /\ last.op = "modifyRoom"
    /\ last.arg[1] \notin DOMAIN rooms
    /\ last.err = "NotFound"

\* C7: setName on a valid room builder with a name the host accepts succeeds
\* and sets the name; with the empty string or any other name the host
\* refuses it fails with InvalidName and the name stays what it was.
C7_SetName ==
    [][\A b \in BuilderIds :
          (last'.op = "setName" /\ last'.b = b /\ Usable(b)) =>
              /\ last'.arg[1] = "" => last'.err = "InvalidName"
              /\ IF ValidRoomName(last'.arg[1])
                 THEN last'.err = None /\ ContentAfter(b).name = last'.arg[1]
                 ELSE last'.err = "InvalidName" /\ ContentAfter(b) = Content(b)]_vars

\* setName("") has failed on a builder whose name is still "general".
C7_Witness ==
    /\ last.op = "setName"
    /\ last.arg[1] = ""
    /\ last.err = "InvalidName"
    /\ Content(last.b).name = "general"

\* C8: a read of the message accessor never fails and changes nothing; its
\* Promise is fulfilled, with undefined when no message has the id, with the
\* message, its sender or its room when there is one.
C8_Read ==
    [][/\ last'.via = "IMessageRead" =>
             /\ last'.err = None
             /\ messages' = messages /\ rooms' = rooms
             /\ objs' = objs /\ builders' = builders
       /\ last'.op = "settle" =>
             LET id == promise.id
                 value == promise'.value
             IN  /\ promise'.state = "fulfilled"
                 /\ id \notin DOMAIN messages => value = Undefined
                 /\ (id \in DOMAIN messages /\ promise.op = "getById")
                    => value = Value(messages[id])
                 /\ (id \in DOMAIN messages /\ promise.op = "getSenderUser"
                       /\ messages[id].sender # None)
                    => value = Value(messages[id].sender)
                 /\ (id \in DOMAIN messages /\ promise.op = "getRoom"
                       /\ messages[id].room \in DOMAIN rooms)
                    => value = Value(rooms[messages[id].room])]_vars

\* getSenderUser("msg-404") has resolved to undefined.
C8_Witness ==
    /\ promise.state = "fulfilled"
    /\ promise.op = "getSenderUser"
    /\ promise.id = "msg-404"
    /\ promise.value = Undefined

\* C9 as claimed: every modify-mode builder has an updater and offers setUpdater.
C9_Original ==
    \A b \in BuilderIds :
        builders[b].mode = "modify" =>
            /\ Content(b).updater # None
            /\ "setUpdater" \in Methods(builders[b].kind)

\* C9: a modify-mode builder always has an updater: the one given to
\* modifyMessage / modifyRoom, afterwards the argument of the most recent
\* setUpdater, which only the message builder offers (a room builder keeps the
\* updater given to modifyRoom); no modify-mode builder commits without one.
C9_Updater ==
    [][\A b \in DOMAIN builders' :
          builders'[b].mode = "modify" =>
              /\ ContentAfter(b).updater \in Users
              /\ ContentAfter(b).updater =
                    IF b \notin BuilderIds THEN last'.arg[2]
                    ELSE IF last'.op = "setUpdater" /\ last'.b = b /\ last'.err = None
                         THEN last'.arg[1]
                    ELSE Content(b).updater
              /\ (last'.op = "setUpdater" /\ last'.b = b) => builders'[b].kind = "message"
              /\ (last'.op \in TerminalMethods /\ last'.b = b /\ last'.err = None)
                 => Content(b).updater # None]_vars

\* setUpdater has replaced the updater a message was opened for modification with.
C9_Witness ==
    /\ last.op = "setUpdater"
    /\ last.err = None
    /\ builders[last.b].mode = "modify"
    /\ Content(last.b).updater = "u2"
    /\ messages[Content(last.b).id].updater = None

\* C10: on a valid message builder setEmojiAvatar and setAvatarUrl always
\* succeed; the avatar is the one of the most recent of these calls, and that
\* is the avatar getMessage() returns and a commit stores.
C10_Avatar ==
    [][\A b \in BuilderIds :
          /\ (last'.op \in {"setEmojiAvatar", "setAvatarUrl"} /\ last'.b = b /\ Usable(b))
             => last'.err = None
          /\ ContentAfter(b).avatar =
                IF last'.op = "setEmojiAvatar" /\ last'.b = b /\ last'.err = None
                THEN [kind |-> "emoji", v |-> last'.arg[1]]
                ELSE IF last'.op = "setAvatarUrl" /\ last'.b = b /\ last'.err = None
                     THEN [kind |-> "url", v |-> last'.arg[1]]
                ELSE Content(b).avatar
          /\ (last'.op = "getMessage" /\ last'.b = b /\ last'.err = None)
             => objs'[held'].avatar = Content(b).avatar
          /\ (last'.op = "finishMessage" /\ last'.b = b /\ last'.err = None)
             => messages'[last'.val].avatar = Content(b).avatar]_vars

\* An emoji has been set on a builder whose earlier snapshot shows an avatar url.
C10_Witness ==
    /\ last.op = "setEmojiAvatar"
    /\ last.err = None
    /\ Content(last.b).avatar.kind = "emoji"
    /\ held # 0
    /\ objs[held].avatar.kind = "url"

====
